---- MODULE Spec2Model ----
\* A model of taqathon-front/src/components/maintenance/RexIntegration.tsx:
\* the quick-REX dialog (QuickRexDialog), the opportunity banner
\* (RexOpportunityBanner) and the record filter of RexIntegration.
\*
\* Strings are sequences of one-character strings, so that String.includes and
\* the template literal `rex_${Date.now()}` are computed, not assumed.
\* An optional value (a prop or a field that may be undefined) is <<>> when it
\* is undefined and <<v>> when it holds v.
EXTENDS Integers, Sequences, FiniteSets

VARIABLES
    maintenanceWindow,  \* prop: the MaintenanceWindow
    isCompleted,        \* prop of RexIntegration (default false)
    onRexCreated,       \* prop of RexIntegration: <<>> (undefined) or <<"fn">>
    now,                \* the wall clock (what Date.now() / new Date() read)
    isOpen,             \* QuickRexDialog state, one per rendered dialog
    isSubmitting,       \* QuickRexDialog state, one per rendered dialog
    formData,           \* QuickRexDialog state, one per rendered dialog
    edits,              \* number of field edits made so far (bounded)
    rexRecords,         \* RexIntegration state: useState<ReturnOfExperience[]>([])
    lastSubmit,         \* the handleSubmit run that has just completed, if the
                        \* last handler to run was handleSubmit
    pc,                 \* "input" before the first render, "integration" once
                        \* RexIntegration has rendered
    view                \* what the last render computed: the tree on screen

vars == <<maintenanceWindow, isCompleted, onRexCreated, now, isOpen,
          isSubmitting, formData, edits, rexRecords, lastSubmit, pc, view>>

----------------------------------------------------------------------------
\* Bounds of the model.

\* the clock starts here and stops ticking at MaxClock
ClockStart == 9
MaxClock == 10
\* at most this many field edits in one behaviour
MaxEdits == 2
\* at most this many anomalies in a window (render specification)
MaxAnomalies == 3
\* at most this many records in the store (filter specification)
MaxRecords == 2

----------------------------------------------------------------------------
\* Strings.

EmptyString == <<>>

\* JavaScript truthiness of a string: "" is falsy, every other string is truthy.
Falsy(s) == s = EmptyString

\* String.prototype.includes(sub): sub occurs in s at some position.
Includes(s, sub) ==
    \E i \in 0..(Len(s) - Len(sub)) : SubSeq(s, i + 1, i + Len(sub)) = sub

DigitChar(d) == <<"0", "1", "2", "3", "4", "5", "6", "7", "8", "9">>[d + 1]

\* Number-to-string conversion of a non-negative integer (template literal).
RECURSIVE ToString(_)
ToString(n) ==
    IF n < 10 THEN <<DigitChar(n)>>
    ELSE ToString(n \div 10) \o <<DigitChar(n % 10)>>

\* x || dflt for an optional string x: undefined and "" both give dflt.
OrElse(x, dflt) == IF x = <<>> \/ Falsy(x[1]) THEN dflt ELSE x[1]

----------------------------------------------------------------------------
\* QuickRexDialog: the form.

Dialogs == {"banner", "actions"}

Impacts == {"low", "medium", "high", "critical"}
Categories == {"technical", "procedural", "organizational", "safety", "quality"}

\* what a user types into a text area
Texts == {EmptyString, <<" ">>, <<"S">>}

InitialFormData ==
    [summary          |-> EmptyString,
     rootCause        |-> EmptyString,
     correctionAction |-> EmptyString,
     preventiveAction |-> EmptyString,
     lessonsLearned   |-> EmptyString,
     recommendations  |-> EmptyString,
     impact           |-> "medium",
     category         |-> "technical"]

----------------------------------------------------------------------------
\* The maintenance window and what is derived from it.

\* MaintenanceWindow.status: "completed" and two statuses that are not.
WindowStatuses == {"planned", "in_progress", "completed"}

\* Anomaly.status: the two resolved statuses and two that are not.
AnomalyStatuses == {"CLOSED", "TREATED", "OPEN", "IN_PROGRESS"}

\* Array.prototype.filter: the elements that satisfy Test, in order.
RECURSIVE FilterResolved(_)
FilterResolved_onlyClosed(as) ==
    IF as = <<>> THEN <<>>
    ELSE (IF Head(as).status = "CLOSED" THEN <<Head(as)>> ELSE <<>>)
         \o FilterResolved(Tail(as))
FilterResolved(as) ==
    IF as = <<>> THEN <<>>
    ELSE (IF Head(as).status = "CLOSED" \/ Head(as).status = "TREATED"
          THEN <<Head(as)>> ELSE <<>>)
         \o FilterResolved(Tail(as))

\* QuickRexDialog: maintenanceWindow.anomalies?.filter(...) || []
resolvedAnomalies(w) ==
    IF w.anomalies = <<>> THEN <<>> ELSE FilterResolved(w.anomalies[1])

\* RexOpportunityBanner: status === "completed" || scheduleEnd < new Date()
bannerIsCompleted_notStrict(w, t) ==
    w.status = "completed" \/ w.scheduleEnd <= t
bannerIsCompleted(w, t) ==
    w.status = "completed" \/ w.scheduleEnd < t

\* RexOpportunityBanner: anomalies && anomalies.length > 0
hasSignificantAnomalies_presentOnly(w) ==
    w.anomalies # <<>>
hasSignificantAnomalies(w) ==
    w.anomalies # <<>> /\ Len(w.anomalies[1]) > 0

\* RexOpportunityBanner: null unless both hold, otherwise the card, which
\* holds a QuickRexDialog.
RexOpportunityBanner(w, t) ==
    IF ~bannerIsCompleted(w, t) \/ ~hasSignificantAnomalies(w)
    THEN "null" ELSE "card"

\* RexIntegration: the test of rexRecords.filter(...):
\* rex.summary.includes(window.title) || rex.id.includes(window.id || "")
MatchesWindow_both(rex, w) ==
    /\ Includes(rex.summary, w.title)
    /\ Includes(rex.id, OrElse(w.id, EmptyString))
MatchesWindow(rex, w) ==
    \/ Includes(rex.summary, w.title)
    \/ Includes(rex.id, OrElse(w.id, EmptyString))

\* RexIntegration: windowRexRecords = rexRecords.filter(...), a new array
RECURSIVE windowRexRecords(_, _)
windowRexRecords(recs, w) ==
    IF recs = <<>> THEN <<>>
    ELSE (IF MatchesWindow(Head(recs), w) THEN <<Head(recs)>> ELSE <<>>)
         \o windowRexRecords(Tail(recs), w)

\* RexIntegration: createdAt of the last matching record, or undefined
lastRexDate(matching) ==
    IF Len(matching) > 0 THEN <<matching[Len(matching)].createdAt>> ELSE <<>>

----------------------------------------------------------------------------
\* QuickRexDialog.handleSubmit, as a function of the dialog's state
\* st = [isOpen, isSubmitting, formData], the callback prop cb, whether the
\* callback throws, and the two clock readings t1 (Date.now(), line 104) and
\* t2 (new Date(), line 113).

Effect(op, arg) == [op |-> op, arg |-> arg]

RexPrefix == <<"r", "e", "x", "_">>

\* if (!formData.summary || !formData.rootCause)
ValidationFails_summaryOnly(form) ==
    Falsy(form.summary)
ValidationFails(form) ==
    Falsy(form.summary) \/ Falsy(form.rootCause)

\* const newRex: ReturnOfExperience = {...}
BuildRex(form, t1, t2) ==
    [id               |-> RexPrefix \o ToString(t1),
     summary          |-> form.summary,
     rootCause        |-> form.rootCause,
     correctionAction |-> form.correctionAction,
     preventiveAction |-> form.preventiveAction,
     lessonsLearned   |-> form.lessonsLearned,
     recommendations  |-> form.recommendations,
     attachments      |-> <<>>,
     createdBy        |-> "Current User",
     createdAt        |-> t2]

\* onRexCreated?.(newRex): no call at all when the prop is undefined
CallOnRexCreated(cb, rex) ==
    IF cb = <<>> THEN <<>> ELSE <<Effect("onRexCreated", rex)>>

\* The try block. A throw of the callback leaves it at once.
TryBlock_noReset(st, cb, throws, t1, t2) ==
    LET call == CallOnRexCreated(cb, BuildRex(st.formData, t1, t2)) IN
    IF cb # <<>> /\ throws
    THEN [thrown |-> TRUE, st |-> st, effects |-> call]
    ELSE [thrown  |-> FALSE,
          st      |-> [st EXCEPT !.isOpen = FALSE],
          effects |-> call \o <<Effect("toast.success", "REX created successfully!"),
                                Effect("setIsOpen", FALSE)>>]
TryBlock(st, cb, throws, t1, t2) ==
    LET call == CallOnRexCreated(cb, BuildRex(st.formData, t1, t2)) IN
    IF cb # <<>> /\ throws
    THEN [thrown |-> TRUE, st |-> st, effects |-> call]
    ELSE [thrown  |-> FALSE,
          st      |-> [st EXCEPT !.isOpen = FALSE, !.formData = InitialFormData],
          effects |-> call \o <<Effect("toast.success", "REX created successfully!"),
                                Effect("setIsOpen", FALSE),
                                Effect("setFormData", InitialFormData)>>]

\* catch (error) { toast.error("Failed to create REX") }
CatchBlock(r) ==
    IF r.thrown
    THEN [r EXCEPT !.thrown = FALSE,
                   !.effects = @ \o <<Effect("toast.error", "Failed to create REX")>>]
    ELSE r

\* finally { setIsSubmitting(false) }
FinallyBlock_missing(r) ==
    r
FinallyBlock(r) ==
    [r EXCEPT !.st = [@ EXCEPT !.isSubmitting = FALSE],
              !.effects = @ \o <<Effect("setIsSubmitting", FALSE)>>]

\* The whole handler: the state it leaves and the effects it emits, in order.
handleSubmitResult(st, cb, throws, t1, t2) ==
    IF ValidationFails(st.formData)
    THEN [st      |-> st,
          effects |-> <<Effect("toast.error",
                               "Please fill in the summary and root cause analysis")>>]
    ELSE LET begun == [st EXCEPT !.isSubmitting = TRUE]
             r == FinallyBlock(CatchBlock(TryBlock(begun, cb, throws, t1, t2)))
         IN  [st      |-> r.st,
              effects |-> <<Effect("setIsSubmitting", TRUE)>> \o r.effects]

----------------------------------------------------------------------------
\* The component as a state machine: RexIntegration renders the banner (which
\* holds a QuickRexDialog without callback) and, when its isCompleted prop is
\* set, a second QuickRexDialog with the onRexCreated prop.

Anomaly(status) == [status |-> status]

\* the windows the dialogs are exercised with: scheduleEnd is ClockStart, so a
\* window that is not completed passes its end when the clock first ticks,
\* and shows its banner at the next render after that
DialogWindows ==
    [id          : {<<<<"7">>>>},
     title       : {<<"T">>},
     scheduleEnd : {ClockStart},
     status      : {"planned", "completed"},
     anomalies   : {<<>>, <<<<Anomaly("CLOSED")>>>>}]

NoSubmit ==
    [dialog |-> "none", form |-> InitialFormData, t1 |-> 0, threw |-> FALSE,
     effects |-> <<>>]

\* anomaliesResolved[d] is the "Anomalies Resolved" badge of dialog d: <<n>>
\* when the dialog's content is on screen, <<>> when it is not
NoView == [banner |-> "null", anomaliesResolved |-> [d \in Dialogs |-> <<>>],
           windowRexRecords |-> <<>>, rexCount |-> 0, lastRexDate |-> <<>>]

\* <QuickRexDialog maintenanceWindow={maintenanceWindow} /> in the banner,
\* <QuickRexDialog ... onRexCreated={onRexCreated} /> under isCompleted
CallbackOf(d) == IF d = "banner" THEN <<>> ELSE onRexCreated

\* what a render of RexIntegration at clock t computes and hands to its
\* children; new Date() of RexOpportunityBanner is read then and only then
RexIntegrationView(v, w, t, recs) ==
    LET matching == windowRexRecords(recs, w) IN
    [v EXCEPT !.banner = RexOpportunityBanner(w, t),
              !.windowRexRecords = matching,
              !.rexCount = Len(matching),
              !.lastRexDate = lastRexDate(matching)]

\* what a render of QuickRexDialog d puts on screen: resolvedAnomalies is
\* computed (lines 90-93) and its length shown in the dialog's content
\* (line 192), which is in the tree only while the dialog is open
RenderQuickRexDialog(v, d, open, w) ==
    [v EXCEPT !.anomaliesResolved[d] =
                  IF open THEN <<Len(resolvedAnomalies(w))>> ELSE <<>>]

\* whether dialog d is in the rendered tree: the banner's dialog when the
\* last render of RexOpportunityBanner returned the card, the other one
\* under the isCompleted prop
Mounted(d) ==
    /\ pc = "integration"
    /\ IF d = "banner"
       THEN view.banner = "card"
       ELSE isCompleted

DialogState(d) ==
    [isOpen |-> isOpen[d], isSubmitting |-> isSubmitting[d],
     formData |-> formData[d]]

Init ==
    /\ maintenanceWindow \in DialogWindows
    /\ isCompleted \in BOOLEAN
    /\ onRexCreated \in {<<>>, <<"fn">>}
    /\ now = ClockStart
    /\ isOpen = [d \in Dialogs |-> FALSE]
    /\ isSubmitting = [d \in Dialogs |-> FALSE]
    /\ formData = [d \in Dialogs |-> InitialFormData]
    /\ edits = 0
    /\ rexRecords = <<>>
    /\ lastSubmit = NoSubmit
    /\ pc = "integration"
    /\ view = RexIntegrationView(NoView, maintenanceWindow, now, rexRecords)

\* the parent renders RexIntegration again with the same props: the only way
\* RexIntegration and the banner re-render, since rexRecords has no setter and
\* a state change of a QuickRexDialog re-renders that dialog alone. A dialog
\* that stays in the tree keeps its state and renders again with it.
RerenderRexIntegration ==
    /\ pc = "integration"
    /\ view' = RenderQuickRexDialog(
                   RenderQuickRexDialog(
                       RexIntegrationView(view, maintenanceWindow, now, rexRecords),
                       "banner", isOpen["banner"], maintenanceWindow),
                   "actions", isOpen["actions"], maintenanceWindow)
    /\ UNCHANGED <<maintenanceWindow, isCompleted, onRexCreated, now, isOpen,
                   isSubmitting, formData, edits, rexRecords, lastSubmit, pc>>

props == <<maintenanceWindow, isCompleted, onRexCreated>>

\* time passes
Tick ==
    /\ now < MaxClock
    /\ now' = now + 1
    /\ UNCHANGED <<props, isOpen, isSubmitting, formData, edits, rexRecords,
                   lastSubmit, pc, view>>

\* Every handler of a dialog ends with the re-render of that dialog that its
\* state change causes.

\* <Dialog open={isOpen} onOpenChange={setIsOpen}>: the trigger opens the
\* dialog, Escape or a click outside closes it
onOpenChange(d, open) ==
    /\ Mounted(d)
    /\ isOpen[d] # open
    /\ isOpen' = [isOpen EXCEPT ![d] = open]
    /\ lastSubmit' = NoSubmit
    /\ view' = RenderQuickRexDialog(view, d, open, maintenanceWindow)
    /\ UNCHANGED <<props, now, isSubmitting, formData, edits, rexRecords, pc>>

\* the Cancel button: onClick={() => setIsOpen(false)}
Cancel(d) ==
    /\ Mounted(d)
    /\ isOpen[d]
    /\ isOpen' = [isOpen EXCEPT ![d] = FALSE]
    /\ lastSubmit' = NoSubmit
    /\ view' = RenderQuickRexDialog(view, d, FALSE, maintenanceWindow)
    /\ UNCHANGED <<props, now, isSubmitting, formData, edits, rexRecords, pc>>

\* setFormData({ ...formData, [field]: value }) from a control of the open
\* dialog
SetField(d, field, value) ==
    /\ Mounted(d)
    /\ isOpen[d]
    /\ edits < MaxEdits
    /\ edits' = edits + 1
    /\ formData' = [formData EXCEPT ![d] = [@ EXCEPT ![field] = value]]
    /\ lastSubmit' = NoSubmit
    /\ view' = RenderQuickRexDialog(view, d, isOpen[d], maintenanceWindow)
    /\ UNCHANGED <<props, now, isOpen, isSubmitting, rexRecords, pc>>

ChangeImpact(d) == \E v \in Impacts : SetField(d, "impact", v)
ChangeCategory(d) == \E v \in Categories : SetField(d, "category", v)
ChangeSummary(d) == \E v \in Texts : SetField(d, "summary", v)
ChangeRootCause(d) == \E v \in Texts : SetField(d, "rootCause", v)
ChangeCorrectionAction(d) == \E v \in Texts : SetField(d, "correctionAction", v)
ChangeLessonsLearned(d) == \E v \in Texts : SetField(d, "lessonsLearned", v)

\* the "Create Quick REX" button: onClick={handleSubmit}, disabled={isSubmitting}.
\* The clock may tick between the handler's two readings of it.
handleSubmit_storesRecord(d) ==
    /\ Mounted(d)
    /\ isOpen[d]
    /\ ~isSubmitting[d]
    /\ \E throws \in BOOLEAN, t2 \in {now, now + 1} :
        LET r == handleSubmitResult(DialogState(d), CallbackOf(d), throws, now, t2)
            ok == \E i \in 1..Len(r.effects) : r.effects[i].op = "toast.success"
        IN  /\ t2 <= MaxClock
            /\ isOpen' = [isOpen EXCEPT ![d] = r.st.isOpen]
            /\ view' = RenderQuickRexDialog(view, d, r.st.isOpen, maintenanceWindow)
            /\ isSubmitting' = [isSubmitting EXCEPT ![d] = r.st.isSubmitting]
            /\ formData' = [formData EXCEPT ![d] = r.st.formData]
            /\ now' = IF ValidationFails(formData[d]) THEN now ELSE t2
            /\ rexRecords' = IF ok /\ Len(rexRecords) < MaxRecords
                             THEN Append(rexRecords, BuildRex(formData[d], now, t2))
                             ELSE rexRecords
            /\ lastSubmit' = [dialog |-> d, form |-> formData[d], t1 |-> now,
                              threw |-> /\ ~ValidationFails(formData[d])
                                        /\ CallbackOf(d) # <<>>
                                        /\ throws,
                              effects |-> r.effects]
    /\ UNCHANGED <<props, edits, pc>>
handleSubmit(d) ==
    /\ Mounted(d)
    /\ isOpen[d]
    /\ ~isSubmitting[d]
    /\ \E throws \in BOOLEAN, t2 \in {now, now + 1} :
        LET r == handleSubmitResult(DialogState(d), CallbackOf(d), throws, now, t2)
        IN  /\ t2 <= MaxClock
            /\ isOpen' = [isOpen EXCEPT ![d] = r.st.isOpen]
            /\ view' = RenderQuickRexDialog(view, d, r.st.isOpen, maintenanceWindow)
            /\ isSubmitting' = [isSubmitting EXCEPT ![d] = r.st.isSubmitting]
            /\ formData' = [formData EXCEPT ![d] = r.st.formData]
            /\ now' = IF ValidationFails(formData[d]) THEN now ELSE t2
            /\ lastSubmit' = [dialog |-> d, form |-> formData[d], t1 |-> now,
                              threw |-> /\ ~ValidationFails(formData[d])
                                        /\ CallbackOf(d) # <<>>
                                        /\ throws,
                              effects |-> r.effects]
    /\ UNCHANGED <<props, edits, rexRecords, pc>>

Next ==
    \/ Tick
    \/ RerenderRexIntegration
    \/ \E d \in Dialogs, open \in BOOLEAN : onOpenChange(d, open)
    \/ \E d \in Dialogs : Cancel(d)
    \/ \E d \in Dialogs : ChangeImpact(d)
    \/ \E d \in Dialogs : ChangeCategory(d)
    \/ \E d \in Dialogs : ChangeSummary(d)
    \/ \E d \in Dialogs : ChangeRootCause(d)
    \/ \E d \in Dialogs : ChangeCorrectionAction(d)
    \/ \E d \in Dialogs : ChangeLessonsLearned(d)
    \/ \E d \in Dialogs : handleSubmit(d)

Spec == Init /\ [][Next]_vars

----------------------------------------------------------------------------
\* Rendering as a function of the props, the clock and the record store:
\* RexIntegration renders first, then a QuickRexDialog it holds (if any)
\* shows its content when it is opened.

BoundedSeq(S, n) == UNION {[1..k -> S] : k \in 0..n}

\* what RexIntegration computes and hands to its children
RenderRexIntegration ==
    /\ pc = "input"
    /\ pc' = "integration"
    /\ view' = RexIntegrationView(view, maintenanceWindow, now, rexRecords)
    /\ UNCHANGED <<props, now, isOpen, isSubmitting, formData, edits,
                   rexRecords, lastSubmit>>

\* the first render, then the dialogs it holds are opened and closed
RenderNext ==
    \/ RenderRexIntegration
    \/ \E d \in Dialogs, open \in BOOLEAN : onOpenChange(d, open)

\* the windows the banner and the anomaly count are exercised with
BannerWindows ==
    [id          : {<<<<"7">>>>},
     title       : {<<"T">>},
     scheduleEnd : (ClockStart - 1)..(MaxClock + 1),
     status      : WindowStatuses,
     anomalies   : {<<>>} \cup
                   {<<as>> : as \in BoundedSeq({Anomaly(x) : x \in AnomalyStatuses},
                                               MaxAnomalies)}]

InitBanner ==
    /\ maintenanceWindow \in BannerWindows
    /\ isCompleted \in BOOLEAN
    /\ onRexCreated = <<>>
    /\ now \in ClockStart..MaxClock
    /\ isOpen = [d \in Dialogs |-> FALSE]
    /\ isSubmitting = [d \in Dialogs |-> FALSE]
    /\ formData = [d \in Dialogs |-> InitialFormData]
    /\ edits = 0
    /\ rexRecords = <<>>
    /\ lastSubmit = NoSubmit
    /\ pc = "input"
    /\ view = NoView

SpecBanner == InitBanner /\ [][RenderNext]_vars

\* The records and windows the filter is exercised with. The store is the
\* filter's parameter here ("This would come from a REX store/API"): the
\* component itself never fills it, so these stores show what the filter
\* computes, not states the component reaches on its own. Every record is
\* one handleSubmit builds: its summary and rootCause are not empty (a form
\* with an empty one stops at the validation and builds nothing) and its id
\* is "rex_" followed by a clock reading.
FilterSummaries == {<<"a">>, <<"c">>, <<"a", "b">>, <<"b", "a">>}
FilterRecordTimes == ClockStart..(MaxClock + 1)
FilterTitles == {<<>>, <<"a">>, <<"b">>, <<"a", "b">>}
FilterWindowIds ==
    {<<>>, <<EmptyString>>, <<<<"1">>>>, <<<<"0">>>>, <<<<"x", "_", "1">>>>}

\* the record handleSubmit builds from a form that passes the validation,
\* when both of its clock readings are t
StoredRex(t, summary) ==
    BuildRex([InitialFormData EXCEPT !.summary = summary, !.rootCause = <<"R">>],
             t, t)

FilterRecords == {StoredRex(t, s) : t \in FilterRecordTimes, s \in FilterSummaries}

FilterWindows ==
    [id          : FilterWindowIds,
     title       : FilterTitles,
     scheduleEnd : {ClockStart},
     status      : {"completed"},
     anomalies   : {<<>>}]

InitFilter ==
    /\ maintenanceWindow \in FilterWindows
    /\ isCompleted = TRUE
    /\ onRexCreated = <<>>
    /\ now = ClockStart
    /\ isOpen = [d \in Dialogs |-> FALSE]
    /\ isSubmitting = [d \in Dialogs |-> FALSE]
    /\ formData = [d \in Dialogs |-> InitialFormData]
    /\ edits = 0
    /\ rexRecords \in BoundedSeq(FilterRecords, MaxRecords)
    /\ lastSubmit = NoSubmit
    /\ pc = "input"
    /\ view = NoView

SpecFilter == InitFilter /\ [][RenderNext]_vars

----------------------------------------------------------------------------
\* Vocabulary of the properties. These read the recorded run (lastSubmit) and
\* the state; none of them uses the operators that model the handler.

Submitted(d) == lastSubmit.dialog = d

\* a mandatory field was empty when the handler ran
MandatoryFieldEmpty(form) ==
    form.summary = EmptyString \/ form.rootCause = EmptyString

\* a string that is empty or holds nothing but spaces
Blank(str) == \A i \in 1..Len(str) : str[i] = " "

EffectsAt(op) ==
    {i \in 1..Len(lastSubmit.effects) : lastSubmit.effects[i].op = op}

ValidationErrorRaised ==
    /\ Len(lastSubmit.effects) = 1
    /\ lastSubmit.effects[1].op = "toast.error"
    /\ lastSubmit.effects[1].arg = "Please fill in the summary and root cause analysis"

BlankForm(form) ==
    /\ form.summary = EmptyString
    /\ form.rootCause = EmptyString
    /\ form.correctionAction = EmptyString
    /\ form.preventiveAction = EmptyString
    /\ form.lessonsLearned = EmptyString
    /\ form.recommendations = EmptyString
    /\ form.impact = "medium"
    /\ form.category = "technical"

----------------------------------------------------------------------------
\* C1: every submission with non-empty summary and rootCause, from either
\* place the dialog is rendered, invokes onRexCreated exactly once with the
\* record built from the form, and does so before setIsOpen(false).
C1_CallbackOnceBeforeClose ==
    \A d \in Dialogs :
        (Submitted(d) /\ ~MandatoryFieldEmpty(lastSubmit.form)) =>
            LET e == lastSubmit.effects IN
            /\ Cardinality(EffectsAt("onRexCreated")) = 1
            /\ \A i \in EffectsAt("onRexCreated") :
                /\ e[i].arg.summary = lastSubmit.form.summary
                /\ e[i].arg.rootCause = lastSubmit.form.rootCause
                /\ \A j \in EffectsAt("setIsOpen") : i < j

\* C2: handleSubmit run with an empty mandatory field changes nothing of the
\* dialog's state (formData, isOpen, isSubmitting), invokes no callback, and
\* raises the validation error notification.
C2_BlockedSubmitLeavesState ==
    [][\A d \in Dialogs :
        (handleSubmit(d) /\ MandatoryFieldEmpty(formData[d])) =>
            /\ UNCHANGED <<formData, isOpen, isSubmitting>>
            /\ \A i \in 1..Len(lastSubmit'.effects) :
                   lastSubmit'.effects[i].op = "toast.error"
            /\ Len(lastSubmit'.effects) = 1]_vars

\* C2 witness: a blocked submission of an edited form, which is still there.
C2_Witness ==
    \E d \in Dialogs :
        /\ Submitted(d)
        /\ MandatoryFieldEmpty(lastSubmit.form)
        /\ lastSubmit.form.summary = <<"S">>
        /\ formData[d] = lastSubmit.form
        /\ isOpen[d]
        /\ ValidationErrorRaised

\* C3: a submission whose summary or rootCause is empty or only whitespace
\* ends in the validation error and produces no record.
C3_BlankFieldRejected ==
    \A d \in Dialogs :
        (Submitted(d) /\ (Blank(lastSubmit.form.summary)
                          \/ Blank(lastSubmit.form.rootCause))) =>
            /\ ValidationErrorRaised
            /\ EffectsAt("onRexCreated") = {}

\* C4: the banner is shown iff (status is "completed" or scheduleEnd is
\* strictly before the current time) and anomalies is present and non-empty.
C4_BannerIffOpportunity ==
    pc # "input" =>
        (view.banner = "card" <=>
            /\ \/ maintenanceWindow.status = "completed"
               \/ maintenanceWindow.scheduleEnd < now
            /\ maintenanceWindow.anomalies # <<>>
            /\ maintenanceWindow.anomalies[1] # <<>>)

\* C4 witness: the banner shown for a window that is not completed but whose
\* end has passed.
C4_Witness ==
    /\ pc # "input"
    /\ view.banner = "card"
    /\ maintenanceWindow.status = "planned"
    /\ maintenanceWindow.scheduleEnd < now

\* window.id as the filter reads it: the empty string when it is absent
C5_WindowId ==
    IF maintenanceWindow.id = <<>> THEN EmptyString ELSE maintenanceWindow.id[1]

\* the test of C5: title in summary, or window.id in id, or window.id absent
\* and id non-empty
C5_ClaimedTest(rex) ==
    \/ Includes(rex.summary, maintenanceWindow.title)
    \/ Includes(rex.id, C5_WindowId)
    \/ /\ maintenanceWindow.id = <<>>
       /\ rex.id # EmptyString

\* C5: the window's records are the subsequence of the input, in input
\* order, of exactly the records R for which window.title is a substring of
\* R.summary, or R.id contains window.id, or window.id is absent and R.id is
\* non-empty; the input is as it was.
C5_FilterAsClaimed ==
    pc # "input" =>
        /\ view.windowRexRecords = SelectSeq(rexRecords, C5_ClaimedTest)
        /\ view.rexCount = Len(SelectSeq(rexRecords, C5_ClaimedTest))

\* C5 witness: of two records the first is dropped (neither its summary holds
\* the title nor its id the window's id) and the second is kept by its id.
C5_Witness ==
    /\ pc # "input"
    /\ maintenanceWindow.id = <<<<"0">>>>
    /\ Len(rexRecords) = 2
    /\ ~Includes(rexRecords[1].summary, maintenanceWindow.title)
    /\ ~Includes(rexRecords[2].summary, maintenanceWindow.title)
    /\ ~Includes(rexRecords[1].id, <<"0">>)
    /\ Includes(rexRecords[2].id, <<"0">>)
    /\ view.windowRexRecords = <<rexRecords[2]>>

\* C6: the record handed to onRexCreated by a submission at time t has
\* attachments = <<>>, createdAt = t, id = "rex_" followed by t, and the six
\* text fields of the form as they were at submission.
C6_RecordFromFormAtT ==
    \A d \in Dialogs :
        (Submitted(d) /\ ~MandatoryFieldEmpty(lastSubmit.form)) =>
            \A i \in EffectsAt("onRexCreated") :
                LET rex == lastSubmit.effects[i].arg
                    f == lastSubmit.form
                IN  /\ rex.attachments = <<>>
                    /\ \E t \in ClockStart..MaxClock :
                        /\ rex.createdAt = t
                        /\ rex.id = <<"r", "e", "x", "_">> \o ToString(t)
                    /\ rex.summary = f.summary
                    /\ rex.rootCause = f.rootCause
                    /\ rex.correctionAction = f.correctionAction
                    /\ rex.preventiveAction = f.preventiveAction
                    /\ rex.lessonsLearned = f.lessonsLearned
                    /\ rex.recommendations = f.recommendations

\* C7: the count shown in the dialog is the number of anomalies whose status
\* is CLOSED or TREATED, and 0 when anomalies is absent.
C7_ResolvedCount ==
    \A d \in Dialogs :
        /\ isOpen[d] <=> view.anomaliesResolved[d] # <<>>
        /\ isOpen[d] =>
            view.anomaliesResolved[d][1] =
                IF maintenanceWindow.anomalies = <<>> THEN 0
                ELSE LET as == maintenanceWindow.anomalies[1] IN
                     Cardinality({i \in 1..Len(as) :
                                    as[i].status \in {"CLOSED", "TREATED"}})

\* C7 witness: an open dialog shows 2 for anomalies CLOSED, OPEN, TREATED.
C7_Witness ==
    \E d \in Dialogs :
        /\ isOpen[d]
        /\ maintenanceWindow.anomalies =
               << <<Anomaly("CLOSED"), Anomaly("OPEN"), Anomaly("TREATED")>> >>
        /\ view.anomaliesResolved[d] = <<2>>

\* C8: after a submission that passed validation and whose callback did not
\* throw, the dialog is closed, isSubmitting is false and the form is blank.
C8_SuccessClosesAndResets ==
    \A d \in Dialogs :
        (/\ Submitted(d)
         /\ ~MandatoryFieldEmpty(lastSubmit.form)
         /\ ~lastSubmit.threw) =>
            /\ ~isOpen[d]
            /\ ~isSubmitting[d]
            /\ BlankForm(formData[d])

\* C8 witness: such a submission of a filled-in form.
C8_Witness ==
    \E d \in Dialogs :
        /\ Submitted(d)
        /\ lastSubmit.form.summary = <<"S">>
        /\ lastSubmit.form.rootCause = <<"S">>
        /\ ~lastSubmit.threw
        /\ EffectsAt("toast.success") # {}
        /\ ~isOpen[d]

\* C9: when onRexCreated throws, an error notification is raised and no
\* success notification, the dialog stays open with its form as it was, and
\* isSubmitting is false; isSubmitting is false after every handleSubmit.
C9_ThrowCaughtFormKept ==
    /\ \A d \in Dialogs : ~isSubmitting[d]
    /\ \A d \in Dialogs :
        (Submitted(d) /\ lastSubmit.threw) =>
            /\ \E i \in EffectsAt("toast.error") :
                   lastSubmit.effects[i].arg = "Failed to create REX"
            /\ EffectsAt("toast.success") = {}
            /\ isOpen[d]
            /\ formData[d] = lastSubmit.form

\* C9 witness: a submission whose callback threw.
C9_Witness ==
    \E d \in Dialogs :
        /\ Submitted(d)
        /\ lastSubmit.threw
        /\ ~MandatoryFieldEmpty(lastSubmit.form)
        /\ EffectsAt("onRexCreated") # {}

\* C10: rexRecords is always empty, so the summary card counts 0 records and
\* has no last-REX date, whatever has been submitted.
C10_StoreNeverModified ==
    /\ rexRecords = <<>>
    /\ view.rexCount = 0
    /\ view.lastRexDate = <<>>

\* C10 witness: a record was delivered to onRexCreated and the dialog closed.
C10_Witness ==
    \E d \in Dialogs :
        /\ Submitted(d)
        /\ EffectsAt("onRexCreated") # {}
        /\ EffectsAt("toast.success") # {}
        /\ rexRecords = <<>>

====
